---- MODULE Spec2Model ----
(***************************************************************************)
(* Inventory tracking and alerting core of JewelryIntegrationModule        *)
(* (src/jewelry_integration_module.py).                                    *)
(*                                                                         *)
(* Python dicts are objects with reference semantics: the inventory, the   *)
(* baseline and the alerts hold references to item dicts, and an item dict *)
(* is changed in place when it is marked missing.  The model therefore     *)
(* keeps a heap (reference -> item record); the inventory and the baseline *)
(* are insertion-ordered dicts (sequences of key/reference entries) and an *)
(* alert holds the reference of the item it was raised for.                *)
(*                                                                         *)
(* Confidences are percentages (0.3 is 30).  Timestamps are instants of a  *)
(* clock that advances with every processed frame, TicksPerSecond of them  *)
(* in one second of int(time.time()).                                      *)
(* Item fields that no code of the core ever reads after creation (area,   *)
(* timestamp, class_id, security_relevant, stable) are left out of the     *)
(* item record.                                                            *)
(***************************************************************************)
EXTENDS Integers, Sequences, FiniteSets, TLC

VARIABLES
    heap,                \* reference -> item dict (the objects that are alive)
    inventory,           \* self.inventory: ordered dict, key -> reference
    baseline_inventory,  \* self.baseline_inventory: ordered dict, key -> reference
    alerts,              \* self.alerts: list of alert dicts
    tracking_active,     \* self.tracking_active
    baseline_file,       \* data/inventory/jewelry_baseline.json
    now,                 \* datetime.datetime.now(), as an instant number
    last,                \* what the last operation was, saw and returned
    run,                 \* the detections of the latest tick, and for how many
                         \* ticks in a row they have been the same
    appended,            \* every alert appended since the alerts were last cleared
    call                 \* the enhanced_detection call that is executing, when
                         \* frames are processed on a thread of their own

vars == <<heap, inventory, baseline_inventory, alerts, tracking_active,
          baseline_file, now, last, run, appended, call>>

-----------------------------------------------------------------------------
(* Bounds of the model *)

MaxTicks == 4

MaxTrackTicks == 5

TicksPerSecond == 3

MaxPeople == 2

MaxJewelry == 10

MaxMissing == 1

MaxBaseline == 10

MaxRingTicks == 4

(* Program constants *)

TrackingTolerance == 50

ConfidenceThreshold == 40

JewelryConfidence == 30

LowConfidenceLimit == 30

RingSize == 50

RecentCount == 5

NoTime == 0 - 1

NoRef == 0

-----------------------------------------------------------------------------
(* Helpers on sequences *)

LastN(s, n) == IF Len(s) <= n THEN s ELSE SubSeq(s, Len(s) - n + 1, Len(s))

-----------------------------------------------------------------------------
(* Class table *)

JewelryIds == {80, 81, 82, 83, 84, 85, 86, 87}

SecurityIds == {0, 24, 26, 28}

_is_jewelry_class(class_id) == class_id \in JewelryIds

_is_security_relevant(class_id) == class_id \in SecurityIds

_get_class_name(class_id) ==
    CASE class_id = 0 -> "person"
      [] class_id = 24 -> "handbag"
      [] class_id = 26 -> "backpack"
      [] class_id = 28 -> "suitcase"
      [] class_id = 80 -> "ring"
      [] class_id = 81 -> "necklace"
      [] class_id = 82 -> "bracelet"
      [] class_id = 83 -> "earrings"
      [] class_id = 84 -> "watch"
      [] class_id = 85 -> "brooch"
      [] class_id = 86 -> "chain"
      [] class_id = 87 -> "pendant"
      [] OTHER -> "unknown"

(* Mutant: a jewelry class is admitted at any confidence *)
_is_jewelry_relevant_any(class_id, confidence) ==
    IF _is_jewelry_class(class_id) THEN TRUE
    ELSE IF _is_security_relevant(class_id) THEN confidence >= ConfidenceThreshold
    ELSE FALSE

_is_jewelry_relevant(class_id, confidence) ==
    IF _is_jewelry_class(class_id) THEN confidence >= JewelryConfidence
    ELSE IF _is_security_relevant(class_id) THEN confidence >= ConfidenceThreshold
    ELSE FALSE

-----------------------------------------------------------------------------
(* Detections: a raw box of the detector is [cls, conf, xyxy] *)

Box(cls, conf, cx, cy, half) ==
    [cls |-> cls, conf |-> conf, xyxy |-> <<cx - half, cy - half, cx + half, cy + half>>]

MakeDetection(box) ==
    LET x1 == box.xyxy[1]
        y1 == box.xyxy[2]
        x2 == box.xyxy[3]
        y2 == box.xyxy[4]
        cx == (x1 + x2) \div 2
        cy == (y1 + y2) \div 2
        name == _get_class_name(box.cls)
    IN  [id |-> [cls |-> name, cx |-> cx, cy |-> cy, sec |-> NoTime],
         class |-> name,
         confidence |-> box.conf,
         bbox |-> <<x1, y1, x2, y2>>,
         center |-> <<cx, cy>>,
         is_jewelry |-> _is_jewelry_class(box.cls)]

RECURSIVE Detections(_)
Detections(boxes) ==
    IF boxes = <<>> THEN <<>>
    ELSE IF _is_jewelry_relevant(Head(boxes).cls, Head(boxes).conf)
         THEN <<MakeDetection(Head(boxes))>> \o Detections(Tail(boxes))
         ELSE Detections(Tail(boxes))

-----------------------------------------------------------------------------
(* Ordered dicts: a sequence of entries [key, ref], keys unique *)

Keys(d) == {d[i].key : i \in DOMAIN d}

Refs(d) == {d[i].ref : i \in DOMAIN d}

HasKey(d, k) == \E i \in DOMAIN d : d[i].key = k

(* d[k] = r : an existing key keeps its position, a new key goes last *)
DictSet(d, k, r) ==
    IF HasKey(d, k)
    THEN [i \in DOMAIN d |-> IF d[i].key = k THEN [key |-> k, ref |-> r] ELSE d[i]]
    ELSE Append(d, [key |-> k, ref |-> r])

DictGet(d, k) == d[CHOOSE i \in DOMAIN d : d[i].key = k].ref

(* The smallest reference that is not in use *)
FreshRef(used) == CHOOSE r \in 1..(Cardinality(used) + 1) :
                      r \notin used /\ \A q \in 1..(r - 1) : q \in used

-----------------------------------------------------------------------------
(* Item Matcher *)

_calculate_distance_sq(p1, p2) ==
    (p1[1] - p2[1]) * (p1[1] - p2[1]) + (p1[2] - p2[2]) * (p1[2] - p2[2])

(* np.sqrt(dx^2 + dy^2) <= tolerance, on integer coordinates *)
WithinTolerance(p1, p2, tolerance) ==
    _calculate_distance_sq(p1, p2) <= tolerance * tolerance

ItemMatchesDetection(item, detection) ==
    /\ item.class = detection.class
    /\ item.status = "present"
    /\ WithinTolerance(item.center, detection.center, TrackingTolerance)

(* The first item, in the dict's order, that matches; NoRef when none does *)
_find_matching_item(hp, inv, detection) ==
    LET hits == {i \in DOMAIN inv : ItemMatchesDetection(hp[inv[i].ref], detection)}
    IN  IF hits = {} THEN NoRef
        ELSE inv[CHOOSE i \in hits : \A j \in hits : i <= j].ref

_generate_item_id(detection, s) ==
    [cls |-> detection.class, cx |-> detection.center[1],
     cy |-> detection.center[2], sec |-> s]

_items_match(item1, item2) ==
    /\ item1.class = item2.class
    /\ WithinTolerance(item1.center, item2.center, TrackingTolerance)

-----------------------------------------------------------------------------
(* Inventory Tracker: _update_jewelry_inventory *)

UpdatedItem(matched_item, detection, current_time) ==
    [matched_item EXCEPT !.last_seen = current_time,
                         !.confidence = detection.confidence,
                         !.center = detection.center,
                         !.status = "present",
                         !.detection_count = matched_item.detection_count + 1]

NewItem(detection, current_time) ==
    [id |-> detection.id,
     class |-> detection.class,
     confidence |-> detection.confidence,
     bbox |-> detection.bbox,
     center |-> detection.center,
     is_jewelry |-> detection.is_jewelry,
     first_seen |-> current_time,
     last_seen |-> current_time,
     status |-> "present",
     detection_count |-> 1,
     missing_since |-> NoTime]

(* Mutant: a second detection that matches the item in the same frame     *)
(* updates the entry the first one wrote, counting once more               *)
ProcessDetectionAccumulating(st, hp0, inv, detection, current_time, s) ==
    IF ~detection.is_jewelry THEN st
    ELSE LET matched == _find_matching_item(hp0, inv, detection)
             r == FreshRef(DOMAIN st.hp)
         IN  IF matched # NoRef
             THEN [hp |-> st.hp @@ (r :> UpdatedItem(
                              IF HasKey(st.ni, hp0[matched].id)
                              THEN st.hp[DictGet(st.ni, hp0[matched].id)]
                              ELSE hp0[matched], detection, current_time)),
                   ni |-> DictSet(st.ni, hp0[matched].id, r)]
             ELSE [hp |-> st.hp @@ (r :> NewItem(detection, current_time)),
                   ni |-> DictSet(st.ni, _generate_item_id(detection, s), r)]

(* One pass of the loop over the detections: st = [hp, ni] is the heap and *)
(* new_inventory so far; matching reads self.inventory, which the loop     *)
(* leaves alone.                                                           *)
ProcessDetection(st, hp0, inv, detection, current_time, s) ==
    IF ~detection.is_jewelry THEN st
    ELSE LET matched == _find_matching_item(hp0, inv, detection)
             r == FreshRef(DOMAIN st.hp)
         IN  IF matched # NoRef
             THEN [hp |-> st.hp @@ (r :> UpdatedItem(hp0[matched], detection, current_time)),
                   ni |-> DictSet(st.ni, hp0[matched].id, r)]
             ELSE [hp |-> st.hp @@ (r :> NewItem(detection, current_time)),
                   ni |-> DictSet(st.ni, _generate_item_id(detection, s), r)]

RECURSIVE ProcessDetections(_, _, _, _, _, _)
ProcessDetections(st, hp0, inv, detections, current_time, s) ==
    IF detections = <<>> THEN st
    ELSE ProcessDetections(
             ProcessDetection(st, hp0, inv, Head(detections), current_time, s),
             hp0, inv, Tail(detections), current_time, s)

(* The entries of self.inventory that the second loop marks missing *)
GoneMissing(hp, inv, ni) ==
    SelectSeq(inv, LAMBDA e : ~HasKey(ni, e.key) /\ hp[e.ref].is_jewelry)

MarkMissing(item, current_time) ==
    [item EXCEPT !.status = "missing", !.missing_since = current_time]

(* The result [hp, inv] of _update_jewelry_inventory *)
_update_jewelry_inventory(hp, inv, detections, current_time, s) ==
    LET st == ProcessDetections([hp |-> hp, ni |-> <<>>], hp, inv, detections,
                                current_time, s)
        gone == GoneMissing(hp, inv, st.ni)
    IN  [hp |-> [r \in DOMAIN st.hp |->
                    IF r \in Refs(gone) THEN MarkMissing(st.hp[r], current_time)
                    ELSE st.hp[r]],
         inv |-> st.ni \o gone]


-----------------------------------------------------------------------------
(* Alert Engine *)

NoDetails == [people_count |-> 0, jewelry_present |-> 0, jewelry_expected |-> 0]

Alert(type, item, timestamp, severity, action_required, details) ==
    [type |-> type, item |-> item, timestamp |-> timestamp, severity |-> severity,
     action_required |-> action_required, details |-> details]

(* Mutant: an item with status missing counts as a match *)
FoundAnyMatch(hp, inv, baseline_item) ==
    \E i \in DOMAIN inv : _items_match(baseline_item, hp[inv[i].ref])

FoundPresentMatch(hp, inv, baseline_item) ==
    \E i \in DOMAIN inv :
        /\ hp[inv[i].ref].status = "present"
        /\ _items_match(baseline_item, hp[inv[i].ref])

_check_missing_from_baseline(hp, inv, base, t) ==
    IF base = <<>> THEN <<>>
    ELSE LET lost == SelectSeq(base, LAMBDA e :
                         /\ hp[e.ref].is_jewelry
                         /\ ~FoundPresentMatch(hp, inv, hp[e.ref]))
         IN  [i \in DOMAIN lost |->
                 Alert("MISSING_JEWELRY", lost[i].ref, t, "CRITICAL", TRUE, NoDetails)]

IsStable(item) == item.detection_count > 3

FoundInBaseline(hp, base, item) ==
    \E i \in DOMAIN base : _items_match(item, hp[base[i].ref])

_check_unauthorized_items(hp, inv, base, t) ==
    LET fresh == SelectSeq(inv, LAMBDA e :
                     /\ hp[e.ref].is_jewelry
                     /\ hp[e.ref].status = "present"
                     /\ IsStable(hp[e.ref])
                     /\ ~FoundInBaseline(hp, base, hp[e.ref]))
    IN  [i \in DOMAIN fresh |->
            Alert("NEW_JEWELRY", fresh[i].ref, t, "HIGH", TRUE, NoDetails)]

(* Mutant: an item at the limit counts as low, confidence <= 0.3 *)
_check_low_confidence_inclusive(hp, inv, t) ==
    LET unsure == SelectSeq(inv, LAMBDA e :
                      /\ hp[e.ref].is_jewelry
                      /\ hp[e.ref].confidence <= LowConfidenceLimit
                      /\ hp[e.ref].status = "present")
    IN  [i \in DOMAIN unsure |->
            Alert("LOW_CONFIDENCE_JEWELRY", unsure[i].ref, t, "MEDIUM", FALSE, NoDetails)]

_check_low_confidence(hp, inv, t) ==
    LET unsure == SelectSeq(inv, LAMBDA e :
                      /\ hp[e.ref].is_jewelry
                      /\ hp[e.ref].confidence < LowConfidenceLimit
                      /\ hp[e.ref].status = "present")
    IN  [i \in DOMAIN unsure |->
            Alert("LOW_CONFIDENCE_JEWELRY", unsure[i].ref, t, "MEDIUM", FALSE, NoDetails)]

PeopleCount(hp, inv) ==
    Cardinality({i \in DOMAIN inv :
        hp[inv[i].ref].class = "person" /\ hp[inv[i].ref].status = "present"})

JewelryCount(hp, inv) ==
    Cardinality({i \in DOMAIN inv :
        hp[inv[i].ref].is_jewelry /\ hp[inv[i].ref].status = "present"})

(* Mutant: the alert is raised at exactly 80% too *)
AtMostBaselineRatio(jewelry_count, baseline_len) == 5 * jewelry_count <= 4 * baseline_len

(* jewelry_count < len(baseline) * 0.8; the float product is exact for     *)
(* every length below 2000, so the test is 5 * count < 4 * len             *)
BelowBaselineRatio(jewelry_count, baseline_len) == 5 * jewelry_count < 4 * baseline_len

_check_suspicious_activity(hp, inv, base, t) ==
    LET people_count == PeopleCount(hp, inv)
        jewelry_count == JewelryCount(hp, inv)
    IN  IF people_count > 0 /\ BelowBaselineRatio(jewelry_count, Len(base))
        THEN <<Alert("SUSPICIOUS_ACTIVITY", NoRef, t, "HIGH", TRUE,
                     [people_count |-> people_count,
                      jewelry_present |-> jewelry_count,
                      jewelry_expected |-> Len(base)])>>
        ELSE <<>>

(* Mutant: a condition that already has an alert in the list raises no other *)
NewAlertsDeduplicated(hp, inv, base, t) ==
    SelectSeq(_check_missing_from_baseline(hp, inv, base, t)
                  \o _check_unauthorized_items(hp, inv, base, t)
                  \o _check_low_confidence(hp, inv, t)
                  \o _check_suspicious_activity(hp, inv, base, t),
              LAMBDA a : ~\E j \in DOMAIN alerts :
                             alerts[j].type = a.type /\ alerts[j].item = a.item)

(* new_alerts of _check_jewelry_alerts *)
NewAlerts(hp, inv, base, t) ==
    _check_missing_from_baseline(hp, inv, base, t)
        \o _check_unauthorized_items(hp, inv, base, t)
        \o _check_low_confidence(hp, inv, t)
        \o _check_suspicious_activity(hp, inv, base, t)

(* Mutant: the list keeps its first 50 alerts, self.alerts[:50] *)
ExtendAlertsKeepFirst(old_alerts, new_alerts) ==
    IF Len(old_alerts \o new_alerts) <= RingSize THEN old_alerts \o new_alerts
    ELSE SubSeq(old_alerts \o new_alerts, 1, RingSize)

(* self.alerts.extend(new_alerts); self.alerts = self.alerts[-50:] *)
ExtendAlerts(old_alerts, new_alerts) == LastN(old_alerts \o new_alerts, RingSize)

-----------------------------------------------------------------------------
(* Status Reporter *)

_create_status_report(hp, inv, base, al, active, detections, t) ==
    [timestamp |-> t,
     total_detections |-> Len(detections),
     jewelry_detections |-> Len(SelectSeq(detections, LAMBDA d : d.is_jewelry)),
     total_items |-> Len(inv),
     present_jewelry |-> Cardinality({i \in DOMAIN inv :
         hp[inv[i].ref].is_jewelry /\ hp[inv[i].ref].status = "present"}),
     missing_jewelry |-> Cardinality({i \in DOMAIN inv :
         hp[inv[i].ref].is_jewelry /\ hp[inv[i].ref].status = "missing"}),
     baseline_count |-> Len(base),
     alerts_total |-> Len(al),
     alerts_critical |-> Cardinality({i \in DOMAIN al : al[i].severity = "CRITICAL"}),
     alerts_high |-> Cardinality({i \in DOMAIN al : al[i].severity = "HIGH"}),
     recent |-> LastN(al, RecentCount),
     tracking_active |-> active]

-----------------------------------------------------------------------------
(* Objects *)

AlertRefs(al) == {al[i].item : i \in DOMAIN al} \ {NoRef}

(* The heap without the dicts nothing refers to any more; an executing     *)
(* call refers to the alerts of the slice it has taken                     *)
Collect(hp, inv, base, al) ==
    [r \in (DOMAIN hp) \cap (Refs(inv) \cup Refs(base) \cup AlertRefs(al)
                                  \cup AlertRefs(call.sliced)) |-> hp[r]]

(* A dict of references as the values it holds *)
ValueOf(hp, d) == [i \in DOMAIN d |-> [key |-> d[i].key, item |-> hp[d[i].ref]]]


-----------------------------------------------------------------------------
(* Frames the detector is fed: rings at three places 50 px apart, a ring   *)
(* the detector is unsure of, a necklace, a person                         *)

RingA == Box(80, 90, 100, 100, 10)

RingB == Box(80, 80, 130, 140, 10)

RingC == Box(80, 90, 160, 180, 10)

FaintRing == Box(80, 20, 100, 100, 10)

PersonP == Box(0, 90, 300, 300, 40)

Frames ==
    {<<>>, <<RingA>>, <<RingC, RingA>>, <<PersonP>>, <<FaintRing, PersonP, RingB>>}

TrackFrames == {<<>>, <<RingA>>, <<RingB>>, <<RingC>>, <<RingC, RingA>>}

-----------------------------------------------------------------------------
(* State *)

(* No call of enhanced_detection is executing *)
NoCall == [pc |-> "none", detections |-> <<>>, t |-> 0, prev_inventory |-> <<>>,
           new_alerts |-> <<>>, sliced |-> <<>>]

Last(op, detections, prev_inventory, prev_baseline, new_alerts, result) ==
    [op |-> op, detections |-> detections, prev_inventory |-> prev_inventory,
     prev_baseline |-> prev_baseline, new_alerts |-> new_alerts, result |-> result]

Init ==
    /\ heap = <<>>
    /\ inventory = <<>>
    /\ baseline_inventory = <<>>
    /\ alerts = <<>>
    /\ tracking_active = FALSE
    /\ baseline_file = [state |-> "absent", doc |-> <<>>]
    /\ now = 0
    /\ last = Last("init", <<>>, <<>>, <<>>, <<>>, [status |-> "none"])
    /\ run = [detections |-> <<>>, length |-> 0]
    /\ appended = <<>>
    /\ call = NoCall

-----------------------------------------------------------------------------
(* enhanced_detection: one processed frame *)

(* int(time.time()) at instant t *)
SecondOf(t) == t \div TicksPerSecond

(* tracking active: _update_jewelry_inventory, then _check_jewelry_alerts *)
TickOn(frames, max_ticks) ==
    /\ tracking_active
    /\ now < max_ticks
    /\ \E frame \in frames :
           LET detections == Detections(frame)
               t == now + 1
               upd == _update_jewelry_inventory(heap, inventory, detections, t, SecondOf(t))
               new_alerts == NewAlerts(upd.hp, upd.inv, baseline_inventory, t)
               al == ExtendAlerts(alerts, new_alerts)
           IN  /\ now' = t
               /\ run' = [detections |-> detections,
                          length |-> IF run.length > 0 /\ run.detections = detections
                                     THEN run.length + 1 ELSE 1]
               /\ inventory' = upd.inv
               /\ alerts' = al
               /\ appended' = appended \o new_alerts
               /\ heap' = Collect(upd.hp, upd.inv, baseline_inventory, al)
               /\ last' = Last("tick", detections, ValueOf(heap, inventory),
                               ValueOf(heap, baseline_inventory), new_alerts,
                               _create_status_report(upd.hp, upd.inv, baseline_inventory,
                                                     al, tracking_active, detections, t))
    /\ UNCHANGED <<baseline_inventory, tracking_active, baseline_file, call>>

Tick == TickOn(Frames, MaxTicks)

(* Mutant: the alert evaluation runs for every frame, tracking or not *)
IdleFrameEvaluating ==
    /\ ~tracking_active
    /\ \E frame \in Frames :
           LET new_alerts == NewAlerts(heap, inventory, baseline_inventory, now)
               al == ExtendAlerts(alerts, new_alerts)
           IN  /\ alerts' = al
               /\ appended' = appended \o new_alerts
               /\ heap' = Collect(heap, inventory, baseline_inventory, al)
               /\ last' = Last("idle", Detections(frame), ValueOf(heap, inventory),
                               ValueOf(heap, baseline_inventory), new_alerts,
                               _create_status_report(heap, inventory, baseline_inventory,
                                                     al, tracking_active,
                                                     Detections(frame), now))
    /\ UNCHANGED <<inventory, baseline_inventory, tracking_active,
                   baseline_file, now, run, call>>

(* tracking stopped: the frame is detected and reported, nothing is updated *)
IdleFrame ==
    /\ ~tracking_active
    /\ \E frame \in Frames :
        last' = Last("idle", Detections(frame), ValueOf(heap, inventory),
                     ValueOf(heap, baseline_inventory), <<>>,
                     _create_status_report(heap, inventory, baseline_inventory, alerts,
                                           tracking_active, Detections(frame), now))
    /\ UNCHANGED <<heap, inventory, baseline_inventory, alerts, tracking_active,
                   baseline_file, now, run, appended, call>>

-----------------------------------------------------------------------------
(* API *)

start_jewelry_tracking ==
    /\ tracking_active' = TRUE
    /\ last' = Last("start", <<>>, ValueOf(heap, inventory),
                    ValueOf(heap, baseline_inventory), <<>>, [status |-> "success"])
    /\ UNCHANGED <<heap, inventory, baseline_inventory, alerts, baseline_file, now, run,
                   appended, call>>

stop_jewelry_tracking ==
    /\ tracking_active' = FALSE
    /\ last' = Last("stop", <<>>, ValueOf(heap, inventory),
                    ValueOf(heap, baseline_inventory), <<>>, [status |-> "success"])
    /\ UNCHANGED <<heap, inventory, baseline_inventory, alerts, baseline_file, now, run,
                   appended, call>>

(* Mutant: stable means detected more than 3 times, as in the new-item check *)
StableJewelryStrict(hp, inv) ==
    SelectSeq(inv, LAMBDA e :
        /\ hp[e.ref].is_jewelry
        /\ hp[e.ref].status = "present"
        /\ hp[e.ref].detection_count > 3)

StableJewelry(hp, inv) ==
    SelectSeq(inv, LAMBDA e :
        /\ hp[e.ref].is_jewelry
        /\ hp[e.ref].status = "present"
        /\ hp[e.ref].detection_count >= 3)

(* json.dump of an item dict: strings, numbers and booleans are written as *)
(* JSON strings, numbers and booleans, the lists bbox and center as JSON   *)
(* arrays; a key the dict does not have (missing_since) is not written     *)
JsonItem(item) ==
    [item EXCEPT !.bbox = [array |-> item.bbox], !.center = [array |-> item.center]]

(* Mutant: the loader normalises what it reads and restarts the counter *)
ItemOfJsonRecounted(json) ==
    [json EXCEPT !.bbox = json.bbox.array, !.center = json.center.array,
                 !.detection_count = 0]

(* json.load of an item: a JSON array becomes a list again *)
ItemOfJson(json) ==
    [json EXCEPT !.bbox = json.bbox.array, !.center = json.center.array]

(* json.dump of a dict of items, in the dict's order *)
JsonDoc(value) ==
    [i \in DOMAIN value |-> [key |-> value[i].key, item |-> JsonItem(value[i].item)]]

(* json.dump writes the items' values; the baseline is a copy of the dict  *)
(* stable_jewelry, whose values are the inventory's own item dicts         *)
save_jewelry_baseline ==
    LET stable_jewelry == StableJewelry(heap, inventory)
    IN  /\ baseline_file' = [state |-> "ok",
                             doc |-> JsonDoc(ValueOf(heap, stable_jewelry))]
        /\ baseline_inventory' = stable_jewelry
        /\ heap' = Collect(heap, inventory, stable_jewelry, alerts)
        /\ last' = Last("save", <<>>, ValueOf(heap, inventory),
                        ValueOf(heap, baseline_inventory), <<>>,
                        [status |-> "success", baseline_count |-> Len(stable_jewelry)])
        /\ UNCHANGED <<inventory, alerts, tracking_active, now, run, appended, call>>

(* json.load builds new dicts: st = [hp, d] after the first entries of doc *)
RECURSIVE LoadEntries(_, _)
LoadEntries(st, doc) ==
    IF doc = <<>> THEN st
    ELSE LET r == FreshRef(DOMAIN st.hp)
         IN  LoadEntries([hp |-> st.hp @@ (r :> ItemOfJson(Head(doc).item)),
                          d |-> Append(st.d, [key |-> Head(doc).key, ref |-> r])],
                         Tail(doc))

(* Mutant: a document that cannot be read resets the baseline in memory *)
load_jewelry_baseline_resetting ==
    /\ IF baseline_file.state = "ok"
       THEN LET ld == LoadEntries([hp |-> heap, d |-> <<>>], baseline_file.doc)
            IN  /\ baseline_inventory' = ld.d
                /\ heap' = Collect(ld.hp, inventory, ld.d, alerts)
                /\ last' = Last("load", <<>>, ValueOf(heap, inventory),
                                ValueOf(heap, baseline_inventory), <<>>,
                                [status |-> "success", baseline_count |-> Len(ld.d)])
       ELSE /\ last' = Last("load", <<>>, ValueOf(heap, inventory),
                            ValueOf(heap, baseline_inventory), <<>>,
                            [status |-> IF baseline_file.state = "absent"
                                        THEN "warning" ELSE "error"])
            /\ baseline_inventory' = IF baseline_file.state = "absent"
                                     THEN baseline_inventory ELSE <<>>
            /\ heap' = Collect(heap, inventory, baseline_inventory', alerts)
    /\ UNCHANGED <<inventory, alerts, tracking_active, baseline_file, now, run, appended,
                   call>>

load_jewelry_baseline ==
    /\ IF baseline_file.state = "ok"
       THEN LET ld == LoadEntries([hp |-> heap, d |-> <<>>], baseline_file.doc)
            IN  /\ baseline_inventory' = ld.d
                /\ heap' = Collect(ld.hp, inventory, ld.d, alerts)
                /\ last' = Last("load", <<>>, ValueOf(heap, inventory),
                                ValueOf(heap, baseline_inventory), <<>>,
                                [status |-> "success", baseline_count |-> Len(ld.d)])
       ELSE /\ last' = Last("load", <<>>, ValueOf(heap, inventory),
                            ValueOf(heap, baseline_inventory), <<>>,
                            [status |-> IF baseline_file.state = "absent"
                                        THEN "warning" ELSE "error"])
            /\ UNCHANGED <<heap, baseline_inventory>>
    /\ UNCHANGED <<inventory, alerts, tracking_active, baseline_file, now, run, appended,
                   call>>

(* The status reports of the calls of get_jewelry_status that directly     *)
(* precede this one: the latest of them, none when the operation before    *)
(* was not get_jewelry_status                                              *)
StatusBefore == IF last.op = "status" THEN <<last.result>> ELSE <<>>

(* Mutant: the report is handed out and the alerts it covered are dropped *)
StatusDraining(t) ==
    /\ now' = t
    /\ alerts' = <<>>
    /\ heap' = Collect(heap, inventory, baseline_inventory, <<>>)
    /\ last' = Last("status", <<>>, ValueOf(heap, inventory),
                    ValueOf(heap, baseline_inventory), <<>>,
                    _create_status_report(heap, inventory, baseline_inventory, alerts,
                                          tracking_active, <<>>, t))
                @@ [before |-> StatusBefore]
    /\ UNCHANGED <<inventory, baseline_inventory, tracking_active,
                   baseline_file, run, appended, call>>

(* get_jewelry_status when datetime.now() reads instant t *)
StatusAt(t) ==
    /\ now' = t
    /\ last' = Last("status", <<>>, ValueOf(heap, inventory),
                    ValueOf(heap, baseline_inventory), <<>>,
                    _create_status_report(heap, inventory, baseline_inventory, alerts,
                                          tracking_active, <<>>, t))
                @@ [before |-> StatusBefore]
    /\ UNCHANGED <<heap, inventory, baseline_inventory, alerts, tracking_active,
                   baseline_file, run, appended, call>>

(* The clock has not moved since the latest frame *)
get_jewelry_status == StatusAt(now)

(* Mutant: the alerts the status report shows as recent survive the call *)
clear_keeping_recent ==
    /\ alerts' = LastN(alerts, RecentCount)
    /\ appended' = <<>>
    /\ heap' = Collect(heap, inventory, baseline_inventory, alerts')
    /\ last' = Last("clear", <<>>, ValueOf(heap, inventory),
                    ValueOf(heap, baseline_inventory), <<>>, [status |-> "success"])
                @@ [cleared |-> Len(alerts)]
    /\ UNCHANGED <<inventory, baseline_inventory, tracking_active, baseline_file, now, run,
                   call>>

(* self.alerts.clear(); cleared records how many alerts the list held *)
clear_jewelry_alerts ==
    /\ alerts' = <<>>
    /\ appended' = <<>>
    /\ heap' = Collect(heap, inventory, baseline_inventory, <<>>)
    /\ last' = Last("clear", <<>>, ValueOf(heap, inventory),
                    ValueOf(heap, baseline_inventory), <<>>, [status |-> "success"])
                @@ [cleared |-> Len(alerts)]
    /\ UNCHANGED <<inventory, baseline_inventory, tracking_active, baseline_file, now, run,
                   call>>

Next ==
    \/ Tick
    \/ IdleFrame
    \/ start_jewelry_tracking
    \/ stop_jewelry_tracking
    \/ save_jewelry_baseline
    \/ load_jewelry_baseline
    \/ get_jewelry_status
    \/ clear_jewelry_alerts

Spec == Init /\ [][Next]_vars

(* A host that only tracks: start, then frames *)
TrackTick == TickOn(TrackFrames, MaxTrackTicks)

NextTrack ==
    \/ TrackTick
    \/ start_jewelry_tracking

SpecTrack == Init /\ [][NextTrack]_vars



-----------------------------------------------------------------------------
(* The alert evaluation on any inventory: p people and j jewelry items     *)
(* present, m jewelry items missing, against a baseline of n items         *)

StoredItem(class, is_jewelry, status, center, confidence) ==
    [id |-> [cls |-> class, cx |-> center[1], cy |-> center[2], sec |-> NoTime],
     class |-> class,
     confidence |-> confidence,
     bbox |-> <<center[1] - 10, center[2] - 10, center[1] + 10, center[2] + 10>>,
     center |-> center,
     is_jewelry |-> is_jewelry,
     first_seen |-> 0,
     last_seen |-> 0,
     status |-> status,
     detection_count |-> 5,
     missing_since |-> NoTime]

EvalItem(k, p, j, m) ==
    IF k <= p THEN StoredItem("person", FALSE, "present", <<100 * k, 500>>, 90)
    ELSE IF k <= p + j THEN StoredItem("ring", TRUE, "present", <<100 * (k - p), 100>>, 90)
    ELSE IF k <= p + j + m
         THEN StoredItem("ring", TRUE, "missing", <<100 * (k - p - j), 300>>, 90)
    ELSE StoredItem("ring", TRUE, "present", <<100 * (k - p - j - m), 100>>, 90)

EntryOf(hp, r) == [key |-> hp[r].id, ref |-> r]

InitEval ==
    \E p \in 0..MaxPeople, j \in 0..MaxJewelry, m \in 0..MaxMissing, n \in 0..MaxBaseline :
        /\ heap = [k \in 1..(p + j + m + n) |-> EvalItem(k, p, j, m)]
        /\ inventory = [k \in 1..(p + j + m) |-> EntryOf(heap, k)]
        /\ baseline_inventory = [k \in 1..n |-> EntryOf(heap, p + j + m + k)]
        /\ alerts = <<>>
        /\ tracking_active = TRUE
        /\ baseline_file = [state |-> "absent", doc |-> <<>>]
        /\ now = 0
        /\ last = Last("init", <<>>, <<>>, <<>>, <<>>, [status |-> "none"])
        /\ run = [detections |-> <<>>, length |-> 0]
        /\ appended = <<>>
        /\ call = NoCall

(* _check_jewelry_alerts on the state as it is *)
Evaluate ==
    /\ now = 0
    /\ LET new_alerts == NewAlerts(heap, inventory, baseline_inventory, 1)
           al == ExtendAlerts(alerts, new_alerts)
       IN  /\ alerts' = al
           /\ appended' = appended \o new_alerts
           /\ last' = Last("evaluate", <<>>, ValueOf(heap, inventory),
                           ValueOf(heap, baseline_inventory), new_alerts,
                           [status |-> "none"])
    /\ now' = 1
    /\ UNCHANGED <<heap, inventory, baseline_inventory, tracking_active, baseline_file, run,
                   call>>

NextEval == Evaluate

SpecEval == InitEval /\ [][NextEval]_vars

-----------------------------------------------------------------------------
(* A session that starts with a persisted baseline of n rings, none of     *)
(* which is in view, and watches one ring that is not in the baseline      *)

BaselineDoc(n) ==
    [k \in 1..n |->
        [key |-> [cls |-> "ring", cx |-> 1000 + 100 * k, cy |-> 100, sec |-> NoTime],
         item |-> JsonItem(StoredItem("ring", TRUE, "present",
                                      <<1000 + 100 * k, 100>>, 90))]]

RingDocSizes == {17, 26}

InitRing ==
    \E n \in RingDocSizes :
        /\ heap = <<>>
        /\ inventory = <<>>
        /\ baseline_inventory = <<>>
        /\ alerts = <<>>
        /\ tracking_active = FALSE
        /\ baseline_file = [state |-> "ok", doc |-> BaselineDoc(n)]
        /\ now = 0
        /\ last = Last("init", <<>>, <<>>, <<>>, <<>>, [status |-> "none"])
        /\ run = [detections |-> <<>>, length |-> 0]
        /\ appended = <<>>
        /\ call = NoCall

RingTick == TickOn({<<RingA>>}, MaxRingTicks)

NextRing ==
    \/ RingTick
    \/ start_jewelry_tracking
    \/ load_jewelry_baseline
    \/ clear_jewelry_alerts

SpecRing == InitRing /\ [][NextRing]_vars

-----------------------------------------------------------------------------
(* Properties of the inventory tracker *)

JewelryDetections(detections) == SelectSeq(detections, LAMBDA d : d.is_jewelry)

BaselineValue == ValueOf(heap, baseline_inventory)

(* Some detection of the frame has the item's class and lies within the    *)
(* tracking tolerance of its center                                        *)
DetectedNear(item, detections) ==
    \E i \in DOMAIN detections :
        /\ detections[i].is_jewelry
        /\ detections[i].class = item.class
        /\ WithinTolerance(item.center, detections[i].center, TrackingTolerance)

(* C1: stability under no motion.  While every tick since construction    *)
(* has processed the same detections, the inventory holds one entry per    *)
(* jewelry detection, and a tick that repeats the detections of the tick   *)
(* before it adds no entry.                                                *)
C1_StabilityUnderNoMotion ==
    last.op = "tick" =>
        /\ (run.length = now =>
                Len(inventory) = Len(JewelryDetections(run.detections)))
        /\ (run.length >= 2 => Len(inventory) <= Len(last.prev_inventory))

(* C2: reappearance.  A missing item whose class is detected again within  *)
(* the tolerance of its last-known center, with no present item of that    *)
(* class near the detection, is present again under its id after the tick, *)
(* with its detection_count one higher.                                    *)
C2_Reappearance ==
    last.op = "tick" =>
        \A i \in DOMAIN last.prev_inventory :
            LET e == last.prev_inventory[i]
            IN  (/\ e.item.status = "missing"
                 /\ DetectedNear(e.item, last.detections)
                 /\ \A j \in DOMAIN last.prev_inventory :
                        LET o == last.prev_inventory[j].item
                        IN  o.status = "present" => ~DetectedNear(o, last.detections))
                => /\ HasKey(inventory, e.key)
                   /\ heap[DictGet(inventory, e.key)].status = "present"
                   /\ heap[DictGet(inventory, e.key)].detection_count
                          = e.item.detection_count + 1

(* C3: missing transition.  An item that was present and has no detection  *)
(* of its class within the tolerance in this tick is still in the          *)
(* inventory under its key, with status missing and missing_since the      *)
(* tick's timestamp.                                                       *)
C3_MissingTransition ==
    last.op = "tick" =>
        \A i \in DOMAIN last.prev_inventory :
            LET e == last.prev_inventory[i]
            IN  (e.item.status = "present" /\ ~DetectedNear(e.item, last.detections))
                => /\ HasKey(inventory, e.key)
                   /\ heap[DictGet(inventory, e.key)].status = "missing"
                   /\ heap[DictGet(inventory, e.key)].missing_since = now


-----------------------------------------------------------------------------
(* Properties of the alert engine and the baseline *)

AlertsOf(type, ref) ==
    {j \in DOMAIN last.new_alerts :
        last.new_alerts[j].type = type /\ last.new_alerts[j].item = ref}

HasPresentCounterpart(item) ==
    \E k \in DOMAIN inventory :
        /\ heap[inventory[k].ref].status = "present"
        /\ heap[inventory[k].ref].class = item.class
        /\ WithinTolerance(item.center, heap[inventory[k].ref].center, TrackingTolerance)

HasBaselineCounterpart(item) ==
    \E k \in DOMAIN baseline_inventory :
        /\ heap[baseline_inventory[k].ref].class = item.class
        /\ WithinTolerance(item.center, heap[baseline_inventory[k].ref].center,
                           TrackingTolerance)

(* C4: missing-from-baseline alert.  The evaluation of a tick raises one   *)
(* MISSING_JEWELRY alert, CRITICAL and action_required, for each jewelry   *)
(* item of the baseline that no present inventory item of its class lies   *)
(* within the tolerance of, and none for the other baseline items.         *)
C4_MissingFromBaseline ==
    last.op = "tick" =>
        /\ \A i \in DOMAIN baseline_inventory :
               LET r == baseline_inventory[i].ref
               IN  heap[r].is_jewelry =>
                       Cardinality(AlertsOf("MISSING_JEWELRY", r))
                           = IF HasPresentCounterpart(heap[r]) THEN 0 ELSE 1
        /\ \A j \in DOMAIN last.new_alerts :
               last.new_alerts[j].type = "MISSING_JEWELRY" =>
                   /\ last.new_alerts[j].severity = "CRITICAL"
                   /\ last.new_alerts[j].action_required
                   /\ last.new_alerts[j].item \in Refs(baseline_inventory)
                   /\ heap[last.new_alerts[j].item].is_jewelry

(* A tick raised a MISSING_JEWELRY alert for a baseline item while an item *)
(* of its class within the tolerance is in the inventory with status       *)
(* missing, and raised none for a baseline item that has a present match   *)
C4_Witness ==
    /\ last.op = "tick"
    /\ \E i \in DOMAIN baseline_inventory :
           /\ AlertsOf("MISSING_JEWELRY", baseline_inventory[i].ref) # {}
           /\ \E k \in DOMAIN inventory :
                  /\ heap[inventory[k].ref].status = "missing"
                  /\ _items_match(heap[baseline_inventory[i].ref], heap[inventory[k].ref])
    /\ \E i \in DOMAIN baseline_inventory :
           /\ HasPresentCounterpart(heap[baseline_inventory[i].ref])
           /\ AlertsOf("MISSING_JEWELRY", baseline_inventory[i].ref) = {}

(* C5: new-item alert.  The evaluation of a tick raises one NEW_JEWELRY    *)
(* alert, HIGH and action_required, for every present jewelry item with    *)
(* detection_count >= 3 that matches no baseline item.                     *)
C5_NewItemAlert ==
    last.op = "tick" =>
        \A i \in DOMAIN inventory :
            LET r == inventory[i].ref
            IN  (/\ heap[r].is_jewelry
                 /\ heap[r].status = "present"
                 /\ heap[r].detection_count >= 3
                 /\ ~HasBaselineCounterpart(heap[r]))
                => /\ Cardinality(AlertsOf("NEW_JEWELRY", r)) = 1
                   /\ \A j \in AlertsOf("NEW_JEWELRY", r) :
                          /\ last.new_alerts[j].severity = "HIGH"
                          /\ last.new_alerts[j].action_required

(* C7: a tick whose detections include a person, while fewer jewelry items *)
(* are present than 80% of the baseline count, raises a                    *)
(* SUSPICIOUS_ACTIVITY alert.                                              *)
C7_PersonReachesCheck ==
    (/\ last.op = "tick"
     /\ \E i \in DOMAIN last.detections : last.detections[i].class = "person"
     /\ 5 * Cardinality({k \in DOMAIN inventory :
                heap[inventory[k].ref].is_jewelry
                /\ heap[inventory[k].ref].status = "present"})
            < 4 * Len(baseline_inventory))
    => \E j \in DOMAIN last.new_alerts :
           last.new_alerts[j].type = "SUSPICIOUS_ACTIVITY"

(* C6: suspicious-activity threshold.  An evaluation raises one            *)
(* SUSPICIOUS_ACTIVITY alert, HIGH and action_required and carrying the    *)
(* counted values, exactly when a person item is present and the present   *)
(* jewelry items are fewer than 80% of the baseline count.                 *)
PresentPeople ==
    {k \in DOMAIN inventory :
        heap[inventory[k].ref].class = "person" /\ heap[inventory[k].ref].status = "present"}

PresentJewelry ==
    {k \in DOMAIN inventory :
        heap[inventory[k].ref].is_jewelry /\ heap[inventory[k].ref].status = "present"}

C6_SuspiciousThreshold ==
    last.op \in {"tick", "evaluate"} =>
        LET raised == {j \in DOMAIN last.new_alerts :
                          last.new_alerts[j].type = "SUSPICIOUS_ACTIVITY"}
        IN  /\ Cardinality(raised)
                   = IF /\ Cardinality(PresentPeople) > 0
                        /\ 100 * Cardinality(PresentJewelry) < 80 * Len(baseline_inventory)
                     THEN 1 ELSE 0
            /\ \A j \in raised :
                   /\ last.new_alerts[j].severity = "HIGH"
                   /\ last.new_alerts[j].action_required
                   /\ last.new_alerts[j].details.people_count = Cardinality(PresentPeople)
                   /\ last.new_alerts[j].details.jewelry_present
                          = Cardinality(PresentJewelry)
                   /\ last.new_alerts[j].details.jewelry_expected
                          = Len(baseline_inventory)

(* One person, 7 of 10 baseline jewelry items present: the alert is raised *)
C6_Witness ==
    /\ last.op = "evaluate"
    /\ Cardinality(PresentPeople) = 1
    /\ Cardinality(PresentJewelry) = 7
    /\ Len(baseline_inventory) = 10
    /\ \E j \in DOMAIN last.new_alerts :
           /\ last.new_alerts[j].type = "SUSPICIOUS_ACTIVITY"
           /\ last.new_alerts[j].details
                  = [people_count |-> 1, jewelry_present |-> 7, jewelry_expected |-> 10]

(* C8: ring eviction.  The alert list holds at most 50 alerts: all that    *)
(* were appended since the last clear while these are at most 50, else the *)
(* 50 appended last, in the order they were appended.                      *)
C8_RingEviction ==
    /\ Len(alerts) <= 50
    /\ Len(alerts) = IF Len(appended) > 50 THEN 50 ELSE Len(appended)
    /\ \A i \in DOMAIN alerts : alerts[i] = appended[Len(appended) - Len(alerts) + i]

(* 51 alerts were appended: the first is gone and the second is now first *)
C8_Witness ==
    /\ Len(appended) = 51
    /\ Len(alerts) = 50
    /\ alerts[1] = appended[2]
    /\ alerts[1] # appended[1]
    /\ alerts[50] = appended[51]


(* C9: baseline filter.  After save_baseline the baseline holds exactly    *)
(* the inventory entries that are jewelry, present and detected at least   *)
(* 3 times, and the call returns their number.                             *)
C9_BaselineFilter ==
    last.op = "save" =>
        /\ Keys(baseline_inventory) \subseteq Keys(inventory)
        /\ \A i \in DOMAIN inventory :
               LET e == inventory[i]
               IN  /\ HasKey(baseline_inventory, e.key)
                       <=> (/\ heap[e.ref].is_jewelry
                            /\ heap[e.ref].status = "present"
                            /\ heap[e.ref].detection_count >= 3)
                   /\ HasKey(baseline_inventory, e.key) =>
                          heap[DictGet(baseline_inventory, e.key)] = heap[e.ref]
        /\ last.result.status = "success"
        /\ last.result.baseline_count = Len(baseline_inventory)
        /\ Len(baseline_inventory) = Cardinality(Keys(baseline_inventory))

(* A save that captured an item and left out a present item detected less *)
(* than 3 times and a missing item                                         *)
C9_Witness ==
    /\ last.op = "save"
    /\ Len(baseline_inventory) >= 1
    /\ \E i \in DOMAIN inventory :
           /\ heap[inventory[i].ref].status = "present"
           /\ heap[inventory[i].ref].detection_count < 3
           /\ ~HasKey(baseline_inventory, inventory[i].key)
    /\ \E i \in DOMAIN inventory :
           /\ heap[inventory[i].ref].status = "missing"
           /\ ~HasKey(baseline_inventory, inventory[i].key)

(* C10: baseline immutability.  No operation other than save_baseline and  *)
(* load_baseline changes a field of a baseline item.                       *)
C10_BaselineImmutable ==
    last.op \in {"tick", "idle", "start", "stop", "status", "clear"} =>
        BaselineValue = last.prev_baseline

-----------------------------------------------------------------------------
(* Properties of the evaluation without a baseline *)

BaselineDependent == {"MISSING_JEWELRY", "NEW_JEWELRY", "SUSPICIOUS_ACTIVITY"}

(* C11: no baseline suppresses baseline-dependent alerts.  While the       *)
(* baseline is empty an evaluation raises no MISSING_JEWELRY, NEW_JEWELRY  *)
(* or SUSPICIOUS_ACTIVITY alert.                                           *)
C11_NoBaselineNoAlert ==
    (last.op \in {"tick", "evaluate"} /\ baseline_inventory = <<>>) =>
        \A j \in DOMAIN last.new_alerts :
            last.new_alerts[j].type \notin BaselineDependent

-----------------------------------------------------------------------------
(* A session whose frames can hold two rings within the tolerance of each  *)
(* other, and a caller that asks the matcher about a detection             *)

MaxMatchTicks == 3

MatchFrames == {<<>>, <<RingA>>, <<RingB>>, <<RingA, RingB>>, <<RingB, RingC>>}

MatchTick == TickOn(MatchFrames, MaxMatchTicks)

(* _find_matching_item(detection) on the inventory as it is *)
find_matching_item ==
    /\ \E box \in {RingA, RingB, RingC} :
           last' = Last("match", <<MakeDetection(box)>>, ValueOf(heap, inventory),
                        ValueOf(heap, baseline_inventory), <<>>,
                        [matched |-> _find_matching_item(heap, inventory,
                                                         MakeDetection(box))])
    /\ UNCHANGED <<heap, inventory, baseline_inventory, alerts, tracking_active,
                   baseline_file, now, run, appended, call>>

NextMatch ==
    \/ MatchTick
    \/ start_jewelry_tracking
    \/ find_matching_item

SpecMatch == Init /\ [][NextMatch]_vars

-----------------------------------------------------------------------------
(* Properties of the matcher *)

(* The inventory items the detection may be matched to *)
Candidates(detection) ==
    {r \in Refs(inventory) :
        /\ heap[r].status = "present"
        /\ heap[r].class = detection.class
        /\ WithinTolerance(heap[r].center, detection.center, TrackingTolerance)}

Closer(item, other, detection) ==
    \/ _calculate_distance_sq(item.center, detection.center)
           < _calculate_distance_sq(other.center, detection.center)
    \/ /\ _calculate_distance_sq(item.center, detection.center)
              = _calculate_distance_sq(other.center, detection.center)
       /\ item.first_seen <= other.first_seen

(* C12: nearest-neighbour matching.  When present items of the detection's *)
(* class lie within the tolerance, the matcher returns one of them that is *)
(* at the smallest distance and, among those at that distance, has the     *)
(* earliest first_seen.                                                    *)
C12_NearestNeighbour ==
    (last.op = "match" /\ Candidates(last.detections[1]) # {}) =>
        /\ last.result.matched \in Candidates(last.detections[1])
        /\ \A r \in Candidates(last.detections[1]) :
               Closer(heap[last.result.matched], heap[r], last.detections[1])

(* C13: no duplicate tracked items.  After a tick no two present items of  *)
(* the inventory have the same class and centers within the tolerance of   *)
(* each other.                                                             *)
C13_NoDuplicates ==
    last.op = "tick" =>
        \A i, j \in DOMAIN inventory :
            (/\ i # j
             /\ heap[inventory[i].ref].status = "present"
             /\ heap[inventory[j].ref].status = "present"
             /\ heap[inventory[i].ref].class = heap[inventory[j].ref].class)
            => ~WithinTolerance(heap[inventory[i].ref].center,
                                heap[inventory[j].ref].center, TrackingTolerance)

-----------------------------------------------------------------------------
(* A session with a persisted baseline of two rings that are out of view,  *)
(* whose status is queried while the clock runs                            *)

MaxStatusClock == 3

StatusFrames == {<<>>, <<RingA>>}

InitStatus ==
    /\ heap = <<>>
    /\ inventory = <<>>
    /\ baseline_inventory = <<>>
    /\ alerts = <<>>
    /\ tracking_active = FALSE
    /\ baseline_file = [state |-> "ok", doc |-> BaselineDoc(2)]
    /\ now = 0
    /\ last = Last("init", <<>>, <<>>, <<>>, <<>>, [status |-> "none"])
    /\ run = [detections |-> <<>>, length |-> 0]
    /\ appended = <<>>
    /\ call = NoCall

StatusTick == TickOn(StatusFrames, MaxStatusClock)

(* get_jewelry_status: the clock reads the instant of the latest operation *)
(* or a later one                                                          *)
get_jewelry_status_later ==
    \E t \in {now, now + 1} : t <= MaxStatusClock /\ StatusAt(t)

NextStatus ==
    \/ StatusTick
    \/ start_jewelry_tracking
    \/ load_jewelry_baseline
    \/ clear_jewelry_alerts
    \/ get_jewelry_status_later

SpecStatus == InitStatus /\ [][NextStatus]_vars

-----------------------------------------------------------------------------
(* Properties of the status reporter and of the tracking flag *)

Untimed(report) == [f \in (DOMAIN report) \ {"timestamp"} |-> report[f]]

(* C14 as claimed: idempotent status.  A get_status call that directly     *)
(* follows a get_status call returns a record equal to the one before in   *)
(* every field.                                                            *)
C14_IdempotentStatus ==
    (last.op = "status" /\ last.before # <<>>) => last.result = last.before[1]

(* C14 as amended: a get_status call that directly follows a get_status    *)
(* call returns a record equal to the one before in every field other than *)
(* the report's own timestamp.                                             *)
C14_IdempotentStatusUntimed ==
    (last.op = "status" /\ last.before # <<>>) =>
        Untimed(last.result) = Untimed(last.before[1])

(* Two status calls in a row, at different instants, of a tracker that     *)
(* holds items, a baseline and alerts                                      *)
C14_Witness ==
    /\ last.op = "status"
    /\ last.before # <<>>
    /\ last.result.timestamp # last.before[1].timestamp
    /\ last.result.total_items > 0
    /\ last.result.baseline_count > 0
    /\ last.result.alerts_total > 0
    /\ last.result.recent # <<>>

(* C15: status is a pure read.  A get_status step leaves the inventory,    *)
(* the baseline, the alert list, the item dicts and the tracking flag as   *)
(* they were.                                                              *)
C15_StatusPureRead ==
    [][last'.op = "status" =>
          UNCHANGED <<heap, inventory, baseline_inventory, alerts, tracking_active>>]_vars

(* A status was taken of a tracking session with items, baseline and alerts *)
C15_Witness ==
    /\ last.op = "status"
    /\ tracking_active
    /\ inventory # <<>>
    /\ baseline_inventory # <<>>
    /\ alerts # <<>>
    /\ last.result.alerts_total = Len(alerts)
    /\ last.prev_inventory = ValueOf(heap, inventory)

(* The inventory update has run once: every item was seen in this tick or  *)
(* is missing since this tick, and no count grew by more than one          *)
UpdatedOnce(hp, inv, t, prev) ==
    \A i \in DOMAIN inv :
        LET item == hp[inv[i].ref]
        IN  /\ \/ item.status = "present" /\ item.last_seen = t
               \/ item.status = "missing" /\ item.missing_since = t
            /\ item.status = "present" =>
                   \/ item.detection_count = 1 /\ item.first_seen = t
                   \/ \E k \in DOMAIN prev :
                          /\ prev[k].item.id = item.id
                          /\ prev[k].item.first_seen = item.first_seen
                          /\ prev[k].item.detection_count + 1 = item.detection_count

(* C16: tracking toggle.  A frame processed while tracking is stopped      *)
(* changes neither the inventory nor the alert list; a frame runs the      *)
(* update and the evaluation only while tracking is started, and then once *)
(* each: the alerts appended are those of one evaluation of the updated    *)
(* inventory.                                                              *)
C16_TrackingToggle ==
    [][/\ last'.op = "idle" =>
              /\ ~tracking_active
              /\ UNCHANGED <<heap, inventory, alerts, appended>>
       /\ last'.op = "tick" =>
              /\ tracking_active
              /\ now' = now + 1
              /\ UpdatedOnce(heap', inventory', now', ValueOf(heap, inventory))
              /\ appended' = appended \o NewAlerts(heap', inventory',
                                                   baseline_inventory', now')
              /\ alerts' = LastN(alerts \o last'.new_alerts, RingSize)
              /\ last'.new_alerts = NewAlerts(heap', inventory', baseline_inventory', now')
      ]_vars

(* A frame with detections was processed while tracking was stopped, in a  *)
(* state where an evaluation would have raised alerts                      *)
C16_Witness ==
    /\ last.op = "idle"
    /\ ~tracking_active
    /\ last.detections # <<>>
    /\ inventory # <<>>
    /\ NewAlerts(heap, inventory, baseline_inventory, now) # <<>>

-----------------------------------------------------------------------------
(* A multi-threaded host: one thread feeds frames to enhanced_detection,   *)
(* whose call proceeds statement by statement, while another thread calls  *)
(* the API methods.  The module takes no lock, so an API method can run    *)
(* between any two statements of the call.  The session starts with a      *)
(* persisted baseline of rings that are out of view.                       *)

MaxConcTicks == 1

MaxConcRingTicks == 2

ConcDocSizes == {2}

ConcRingDocSizes == {26}

ConcFrames == {<<RingA>>}

InitConcWith(n) ==
    /\ heap = <<>>
    /\ inventory = <<>>
    /\ baseline_inventory = <<>>
    /\ alerts = <<>>
    /\ tracking_active = FALSE
    /\ baseline_file = [state |-> "ok", doc |-> BaselineDoc(n)]
    /\ now = 0
    /\ last = Last("init", <<>>, <<>>, <<>>, <<>>, [status |-> "none"])
    /\ run = [detections |-> <<>>, length |-> 0]
    /\ appended = <<>>
    /\ call = NoCall

InitConc == \E n \in ConcDocSizes : InitConcWith(n)

InitConcRing == \E n \in ConcRingDocSizes : InitConcWith(n)

(* if self.tracking_active: the flag is read once, after the detection *)
CallBeginOn(max_ticks) ==
    /\ call.pc = "none"
    /\ tracking_active
    /\ now < max_ticks
    /\ \E frame \in ConcFrames :
           call' = [NoCall EXCEPT !.pc = "update", !.detections = Detections(frame),
                                  !.t = now + 1]
    /\ now' = now + 1
    /\ UNCHANGED <<heap, inventory, baseline_inventory, alerts, tracking_active,
                   baseline_file, last, run, appended>>

CallBegin == CallBeginOn(MaxConcTicks)

(* The flag was read as False: the frame is reported, nothing is updated *)
CallIdle == call.pc = "none" /\ IdleFrame

(* self._update_jewelry_inventory(jewelry_detections) *)
CallUpdate ==
    /\ call.pc = "update"
    /\ LET upd == _update_jewelry_inventory(heap, inventory, call.detections, call.t,
                                            SecondOf(call.t))
       IN  /\ inventory' = upd.inv
           /\ heap' = Collect(upd.hp, upd.inv, baseline_inventory, alerts)
    /\ call' = [call EXCEPT !.pc = "evaluate",
                            !.prev_inventory = ValueOf(heap, inventory)]
    /\ UNCHANGED <<baseline_inventory, alerts, tracking_active, baseline_file, now,
                   last, run, appended>>

(* Mutant: the flag is read again before the evaluation, and a call that  *)
(* finds tracking stopped returns without evaluating                      *)
CallEvaluateIfTracking ==
    /\ call.pc = "evaluate"
    /\ IF tracking_active
       THEN LET new_alerts == NewAlerts(heap, inventory, baseline_inventory, call.t)
            IN  /\ alerts' = alerts \o new_alerts
                /\ appended' = appended \o new_alerts
                /\ call' = [call EXCEPT !.pc = "trim", !.new_alerts = new_alerts]
       ELSE /\ call' = NoCall
            /\ UNCHANGED <<alerts, appended>>
    /\ UNCHANGED <<heap, inventory, baseline_inventory, tracking_active, baseline_file,
                   now, last, run>>

(* self._check_jewelry_alerts(), up to self.alerts.extend(new_alerts) *)
CallEvaluate ==
    /\ call.pc = "evaluate"
    /\ LET new_alerts == NewAlerts(heap, inventory, baseline_inventory, call.t)
       IN  /\ alerts' = alerts \o new_alerts
           /\ appended' = appended \o new_alerts
           /\ call' = [call EXCEPT !.pc = "trim", !.new_alerts = new_alerts]
    /\ UNCHANGED <<heap, inventory, baseline_inventory, tracking_active, baseline_file,
                   now, last, run>>

(* self.alerts[-50:] : the slice is a new list *)
CallTrim ==
    /\ call.pc = "trim"
    /\ call' = [call EXCEPT !.pc = "store", !.sliced = LastN(alerts, RingSize)]
    /\ UNCHANGED <<heap, inventory, baseline_inventory, alerts, tracking_active,
                   baseline_file, now, last, run, appended>>

(* self.alerts = (the slice); then the status report and the return *)
CallStore ==
    /\ call.pc = "store"
    /\ alerts' = call.sliced
    /\ heap' = Collect(heap, inventory, baseline_inventory, call.sliced)
    /\ last' = Last("tick", call.detections, call.prev_inventory,
                    ValueOf(heap, baseline_inventory), call.new_alerts,
                    _create_status_report(heap, inventory, baseline_inventory,
                                          call.sliced, tracking_active,
                                          call.detections, call.t))
    /\ run' = [detections |-> call.detections,
               length |-> IF run.length > 0 /\ run.detections = call.detections
                          THEN run.length + 1 ELSE 1]
    /\ call' = NoCall
    /\ UNCHANGED <<inventory, baseline_inventory, tracking_active, baseline_file, now,
                   appended>>

NextConc ==
    \/ CallBegin
    \/ CallIdle
    \/ CallUpdate
    \/ CallEvaluate
    \/ CallTrim
    \/ CallStore
    \/ start_jewelry_tracking
    \/ stop_jewelry_tracking
    \/ save_jewelry_baseline
    \/ load_jewelry_baseline
    \/ get_jewelry_status
    \/ clear_jewelry_alerts

SpecConc == InitConc /\ [][NextConc]_vars

(* The same host with the large baseline, its API thread polling the status *)
CallBeginRing == CallBeginOn(MaxConcRingTicks)

NextConcRing ==
    \/ CallBeginRing
    \/ CallUpdate
    \/ CallEvaluate
    \/ CallTrim
    \/ CallStore
    \/ start_jewelry_tracking
    \/ load_jewelry_baseline
    \/ get_jewelry_status

SpecConcRing == InitConcRing /\ [][NextConcRing]_vars

-----------------------------------------------------------------------------
(* Properties of a multi-threaded host *)

(* The call has started its inventory update and has not finished its      *)
(* alert evaluation                                                        *)
InsideTick == call.pc \in {"evaluate", "trim", "store"}

(* C17: atomic tick.  No save_baseline, load_baseline, clear_alerts or     *)
(* get_status runs between the start of a tick's inventory update and the  *)
(* end of its alert evaluation.                                            *)
C17_AtomicTick ==
    [][(InsideTick /\ last' # last) =>
           last'.op \notin {"save", "load", "clear", "status"}]_vars

(* C18: ring bound visible to readers.  No get_status, at whatever point   *)
(* of a tick it runs, reports an alert total above 50.                     *)
C18_RingBoundObserved ==
    last.op = "status" => last.result.alerts_total <= 50

Successor(pc) ==
    CASE pc = "update" -> "evaluate"
      [] pc = "evaluate" -> "trim"
      [] pc = "trim" -> "store"
      [] pc = "store" -> "none"

(* C19: no mid-tick preemption on stop.  stop_tracking leaves an executing *)
(* call as it is; a call that has begun only ever moves on to its next     *)
(* statement, whatever the flag, and can always do so; and while the flag  *)
(* is down no call begins an update: a frame processed then leaves the     *)
(* inventory and the alerts unchanged.                                     *)
C19_NoPreemptionOnStop ==
    [][/\ (last'.op = "stop" /\ last' # last) => call' = call
       /\ (call.pc # "none" /\ call' # call) => call'.pc = Successor(call.pc)
       /\ call.pc # "none" =>
              ENABLED (CallUpdate \/ CallEvaluate \/ CallTrim \/ CallStore)
       /\ (call.pc = "none" /\ ~tracking_active) =>
              /\ call'.pc = "none"
              /\ last'.op = "idle" => UNCHANGED <<heap, inventory, alerts>>
      ]_vars

(* A call has completed its update and its evaluation, and raised alerts,  *)
(* although tracking was stopped while it was executing                    *)
C19_Witness ==
    /\ last.op = "tick"
    /\ ~tracking_active
    /\ call.pc = "none"
    /\ inventory # <<>>
    /\ last.new_alerts # <<>>
    /\ \A i \in DOMAIN inventory : heap[inventory[i].ref].last_seen = now

-----------------------------------------------------------------------------
(* The tick on a detection list that a caller supplies: a detection dict   *)
(* may lack a key, and reading a key that is not there raises KeyError     *)

MaxRawTicks == 3

RequiredKeys == {"id", "class", "confidence", "bbox", "center", "is_jewelry"}

WellFormed(detection) == RequiredKeys \subseteq DOMAIN detection

Lacking(detection, key) == [k \in (DOMAIN detection) \ {key} |-> detection[k]]

(* The loop body raises KeyError on this detection: detection["is_jewelry"] *)
(* (line 263), detection['class'] and detection['center'] in               *)
(* _generate_item_id (line 264), detection["confidence"] on a match        *)
(* (line 274)                                                              *)
RaisesKeyError(hp, inv, detection) ==
    IF "is_jewelry" \notin DOMAIN detection THEN TRUE
    ELSE IF ~detection.is_jewelry THEN FALSE
    ELSE IF "class" \notin DOMAIN detection \/ "center" \notin DOMAIN detection THEN TRUE
    ELSE /\ "confidence" \notin DOMAIN detection
         /\ _find_matching_item(hp, inv, detection) # NoRef

(* _update_jewelry_inventory has no try: the first KeyError leaves the     *)
(* method before self.inventory is assigned and before any item is marked  *)
RawUpdate(hp, inv, detections, current_time, s) ==
    IF \E i \in DOMAIN detections : RaisesKeyError(hp, inv, detections[i])
    THEN [raised |-> TRUE, hp |-> hp, inv |-> inv]
    ELSE LET upd == _update_jewelry_inventory(hp, inv, detections, current_time, s)
         IN  [raised |-> FALSE, hp |-> upd.hp, inv |-> upd.inv]

RawDetections ==
    {<<>>,
     <<MakeDetection(RingA)>>,
     <<MakeDetection(RingC), MakeDetection(RingA)>>,
     <<MakeDetection(RingA), Lacking(MakeDetection(RingC), "center")>>,
     <<Lacking(MakeDetection(RingC), "is_jewelry"), MakeDetection(RingA)>>}

(* Lines 155-167 of enhanced_detection on the detections given: the except *)
(* clause of the method catches the KeyError and returns an error status   *)
RawTick ==
    /\ tracking_active
    /\ now < MaxRawTicks
    /\ \E detections \in RawDetections :
           LET t == now + 1
               upd == RawUpdate(heap, inventory, detections, t, SecondOf(t))
               new_alerts == IF upd.raised THEN <<>>
                             ELSE NewAlerts(upd.hp, upd.inv, baseline_inventory, t)
               al == IF upd.raised THEN alerts ELSE ExtendAlerts(alerts, new_alerts)
           IN  /\ now' = t
               /\ run' = [detections |-> detections,
                          length |-> IF run.length > 0 /\ run.detections = detections
                                     THEN run.length + 1 ELSE 1]
               /\ inventory' = upd.inv
               /\ alerts' = al
               /\ appended' = appended \o new_alerts
               /\ heap' = Collect(upd.hp, upd.inv, baseline_inventory, al)
               /\ last' = Last("tick", detections, ValueOf(heap, inventory),
                               ValueOf(heap, baseline_inventory), new_alerts,
                               IF upd.raised THEN [error |-> "KeyError"]
                               ELSE _create_status_report(upd.hp, upd.inv,
                                        baseline_inventory, al, tracking_active,
                                        detections, t))
    /\ UNCHANGED <<baseline_inventory, tracking_active, baseline_file, call>>

NextRaw ==
    \/ RawTick
    \/ start_jewelry_tracking

SpecRaw == Init /\ [][NextRaw]_vars

-----------------------------------------------------------------------------
(* Properties of the tick on malformed detections *)

-----------------------------------------------------------------------------
(* A session whose detector can fail: self.jewelry_model(frame, ...) raises *)
(* (or the model was never loaded and is None), the except clause of       *)
(* enhanced_detection logs the error and returns an error status           *)

MaxFailTicks == 3

FailFrames == {<<>>, <<RingA>>, <<RingC, RingA>>}

FailTick == TickOn(FailFrames, MaxFailTicks)

(* The exception leaves the try block at line 113, before the tracking     *)
(* flag is read: nothing of the tracker is touched                         *)
enhanced_detection_failed ==
    /\ now < MaxFailTicks
    /\ now' = now + 1
    /\ last' = Last("failed", <<>>, ValueOf(heap, inventory),
                    ValueOf(heap, baseline_inventory), <<>>, [error |-> "Exception"])
    /\ UNCHANGED <<heap, inventory, baseline_inventory, alerts, tracking_active,
                   baseline_file, run, appended, call>>

NextFail ==
    \/ FailTick
    \/ start_jewelry_tracking
    \/ enhanced_detection_failed

SpecFail == Init /\ [][NextFail]_vars

-----------------------------------------------------------------------------
(* Properties of the tick when the detector delivers nothing *)

(* C21: detector failure counts as an empty frame.  After a frame for      *)
(* which the detector returned no detection or failed, with tracking       *)
(* active, every item that was present before the frame is in the          *)
(* inventory with status missing.                                          *)
C21_FailureIsEmptyFrame ==
    (/\ tracking_active
     /\ \/ last.op = "failed"
        \/ last.op = "tick" /\ last.detections = <<>>)
    => \A i \in DOMAIN last.prev_inventory :
           last.prev_inventory[i].item.status = "present" =>
               /\ HasKey(inventory, last.prev_inventory[i].key)
               /\ heap[DictGet(inventory, last.prev_inventory[i].key)].status = "missing"

-----------------------------------------------------------------------------
(* A session whose baseline document changes under the program: the file   *)
(* data/inventory/jewelry_baseline.json is deleted, or overwritten with    *)
(* text that json.load rejects, between two calls                          *)

MaxFileTicks == 3

FileFrames == {<<>>, <<RingA>>, <<RingA, RingC>>}

FileTick == TickOn(FileFrames, MaxFileTicks)

(* os.path.exists(baseline_path) is False afterwards *)
baseline_file_removed ==
    /\ baseline_file.state # "absent"
    /\ baseline_file' = [state |-> "absent", doc |-> <<>>]
    /\ last' = Last("file_removed", <<>>, ValueOf(heap, inventory),
                    ValueOf(heap, baseline_inventory), <<>>, [status |-> "none"])
    /\ UNCHANGED <<heap, inventory, baseline_inventory, alerts, tracking_active, now, run,
                   appended, call>>

(* The file exists and json.load raises JSONDecodeError on it *)
baseline_file_corrupted ==
    /\ baseline_file.state # "corrupt"
    /\ baseline_file' = [state |-> "corrupt", doc |-> <<>>]
    /\ last' = Last("file_corrupted", <<>>, ValueOf(heap, inventory),
                    ValueOf(heap, baseline_inventory), <<>>, [status |-> "none"])
    /\ UNCHANGED <<heap, inventory, baseline_inventory, alerts, tracking_active, now, run,
                   appended, call>>

NextFile ==
    \/ FileTick
    \/ start_jewelry_tracking
    \/ save_jewelry_baseline
    \/ load_jewelry_baseline
    \/ baseline_file_removed
    \/ baseline_file_corrupted

SpecFile == Init /\ [][NextFile]_vars

-----------------------------------------------------------------------------
(* Properties of the persisted baseline *)

(* C22: load with no persisted baseline.  A call of load_jewelry_baseline  *)
(* that finds no document returns a warning, not an error, and leaves the  *)
(* baseline in memory empty whatever it held before.                       *)
C22_LoadNotFoundEmpties ==
    (last.op = "load" /\ baseline_file.state = "absent")
    => /\ last.result.status = "warning"
       /\ baseline_inventory = <<>>

-----------------------------------------------------------------------------
(* Properties of the alert list over several ticks *)

(* C25: clear_jewelry_alerts empties the alert list: afterwards its length *)
(* is 0 and a status report shows a total of 0 and no recent alert, while  *)
(* the inventory, the baseline (the same objects with the same values) and *)
(* the tracking flag are what they were.                                   *)
C25_ClearAlerts ==
    [][last'.op = "clear"
       => /\ Len(alerts') = 0
          /\ LET report == _create_status_report(heap', inventory', baseline_inventory',
                                                 alerts', tracking_active', <<>>, now')
             IN  /\ report.alerts_total = 0
                 /\ report.alerts_critical = 0
                 /\ report.alerts_high = 0
                 /\ report.recent = <<>>
          /\ inventory' = inventory
          /\ baseline_inventory' = baseline_inventory
          /\ ValueOf(heap', inventory') = ValueOf(heap, inventory)
          /\ ValueOf(heap', baseline_inventory') = ValueOf(heap, baseline_inventory)
          /\ tracking_active' = tracking_active]_vars

(* A call that cleared more alerts than a report shows as recent, with an  *)
(* inventory, a baseline and tracking on                                   *)
C25_Witness ==
    /\ last.op = "clear"
    /\ last.cleared > RecentCount
    /\ alerts = <<>>
    /\ inventory # <<>>
    /\ baseline_inventory # <<>>
    /\ tracking_active

MissingAlertsFor(seq, ref) ==
    {j \in DOMAIN seq : seq[j].type = "MISSING_JEWELRY" /\ seq[j].item = ref}

(* C26: no deduplication.  In every tick after which a baseline item has   *)
(* no present item of its class within tolerance, one more                 *)
(* MISSING_JEWELRY alert for that item is appended, stamped with the       *)
(* tick's time and held by the list, however many alerts for the same      *)
(* item earlier ticks appended: k consecutive ticks append k alerts.       *)
C26_NoDeduplication ==
    [][last'.op = "tick"
       => \A i \in DOMAIN baseline_inventory :
              (~HasPresentCounterpart(heap[baseline_inventory[i].ref]))'
              => /\ Cardinality(MissingAlertsFor(appended', baseline_inventory[i].ref))
                      = Cardinality(MissingAlertsFor(appended, baseline_inventory[i].ref)) + 1
                 /\ \E j \in MissingAlertsFor(appended', baseline_inventory[i].ref) :
                        j > Len(appended) /\ appended'[j].timestamp = now'
                 /\ \E j \in MissingAlertsFor(alerts', baseline_inventory[i].ref) :
                        alerts'[j].timestamp = now']_vars

(* Three ticks in a row in which the same baseline item was unmatched:     *)
(* three alerts for it, one per tick                                       *)
C26_Witness ==
    /\ last.op = "tick"
    /\ run.length >= 3
    /\ \E i \in DOMAIN baseline_inventory :
           /\ ~HasPresentCounterpart(heap[baseline_inventory[i].ref])
           /\ {appended[j].timestamp :
                  j \in MissingAlertsFor(appended, baseline_inventory[i].ref)}
                  = {now - 2, now - 1, now}
           /\ Cardinality(MissingAlertsFor(appended, baseline_inventory[i].ref)) = 3

-----------------------------------------------------------------------------
(* The alert evaluation on inventories of items just below and at the      *)
(* low-confidence limit: rings and people, present and missing, no baseline *)

MaxLowItems == 4

LowKinds ==
    {[class_id |-> c, status |-> s, confidence |-> q] :
        c \in {80, 0}, s \in {"present", "missing"},
        q \in {LowConfidenceLimit - 1, LowConfidenceLimit}}

LowItem(kind, k) ==
    StoredItem(_get_class_name(kind.class_id), _is_jewelry_class(kind.class_id),
               kind.status, <<100 * k, 100>>, kind.confidence)

InitLow ==
    \E n \in 0..MaxLowItems :
        \E kinds \in [1..n -> LowKinds] :
            /\ heap = [k \in 1..n |-> LowItem(kinds[k], k)]
            /\ inventory = [k \in 1..n |-> EntryOf(heap, k)]
            /\ baseline_inventory = <<>>
            /\ alerts = <<>>
            /\ tracking_active = TRUE
            /\ baseline_file = [state |-> "absent", doc |-> <<>>]
            /\ now = 0
            /\ last = Last("init", <<>>, <<>>, <<>>, <<>>, [status |-> "none"])
            /\ run = [detections |-> <<>>, length |-> 0]
            /\ appended = <<>>
            /\ call = NoCall

NextLow == Evaluate

SpecLow == InitLow /\ [][NextLow]_vars

(* C27: low-confidence alert.  One evaluation emits exactly one            *)
(* LOW_CONFIDENCE_JEWELRY alert for every present jewelry item whose       *)
(* confidence is strictly below 0.3 and none for any other item; each such *)
(* alert has severity MEDIUM, requires no action and carries the           *)
(* evaluation's time.                                                      *)
C27_LowConfidenceAlert ==
    last.op = "evaluate"
    => /\ \A i \in DOMAIN inventory :
              Cardinality(AlertsOf("LOW_CONFIDENCE_JEWELRY", inventory[i].ref))
                  = IF /\ heap[inventory[i].ref].is_jewelry
                       /\ heap[inventory[i].ref].status = "present"
                       /\ heap[inventory[i].ref].confidence < 30
                    THEN 1 ELSE 0
       /\ \A j \in DOMAIN last.new_alerts :
              last.new_alerts[j].type = "LOW_CONFIDENCE_JEWELRY"
              => /\ last.new_alerts[j].item \in Refs(inventory)
                 /\ last.new_alerts[j].severity = "MEDIUM"
                 /\ last.new_alerts[j].action_required = FALSE
                 /\ last.new_alerts[j].timestamp = now
                 /\ \E k \in DOMAIN alerts : alerts[k] = last.new_alerts[j]

(* An evaluation of a present ring at 0.29, a present ring at 0.30, a      *)
(* missing ring at 0.29 and a person at 0.29: one alert                    *)
C27_Witness ==
    /\ last.op = "evaluate"
    /\ Cardinality({j \in DOMAIN last.new_alerts :
                       last.new_alerts[j].type = "LOW_CONFIDENCE_JEWELRY"}) = 1
    /\ \E i \in DOMAIN inventory :
           /\ heap[inventory[i].ref].is_jewelry
           /\ heap[inventory[i].ref].status = "present"
           /\ heap[inventory[i].ref].confidence = 29
           /\ AlertsOf("LOW_CONFIDENCE_JEWELRY", inventory[i].ref) # {}
    /\ \E i \in DOMAIN inventory :
           /\ heap[inventory[i].ref].is_jewelry
           /\ heap[inventory[i].ref].status = "present"
           /\ heap[inventory[i].ref].confidence = 30
    /\ \E i \in DOMAIN inventory :
           /\ heap[inventory[i].ref].is_jewelry
           /\ heap[inventory[i].ref].status = "missing"
           /\ heap[inventory[i].ref].confidence = 29
    /\ \E i \in DOMAIN inventory :
           /\ ~heap[inventory[i].ref].is_jewelry
           /\ heap[inventory[i].ref].status = "present"
           /\ heap[inventory[i].ref].confidence = 29

-----------------------------------------------------------------------------
(* Properties of one update of the inventory *)

(* The inventory before the tick holds a present item of the detection's   *)
(* class at a Euclidean distance of at most 50 px from its center          *)
HadPresentItemNear(detection) ==
    \E k \in DOMAIN last.prev_inventory :
        LET item == last.prev_inventory[k].item
        IN  /\ item.status = "present"
            /\ item.class = detection.class
            /\ (item.center[1] - detection.center[1]) * (item.center[1] - detection.center[1])
                 + (item.center[2] - detection.center[2]) * (item.center[2] - detection.center[2])
                   <= 50 * 50

(* The entries of the inventory that this tick created for the detection *)
CreatedFor(detection) ==
    {k \in DOMAIN inventory :
        /\ heap[inventory[k].ref].class = detection.class
        /\ heap[inventory[k].ref].center = detection.center
        /\ heap[inventory[k].ref].first_seen = now}

(* C28: match / create rule.  After a tick, a detection for which the      *)
(* inventory held a present item of its class within 50 px (inclusive) has *)
(* been matched: no item was created for it; for every other detection     *)
(* exactly one item was created, with detection_count 1, status present    *)
(* and first_seen = last_seen = the time of the tick.                      *)
C28_MatchCreateRule ==
    last.op = "tick"
    => \A i \in DOMAIN last.detections :
           IF HadPresentItemNear(last.detections[i])
           THEN CreatedFor(last.detections[i]) = {}
           ELSE /\ Cardinality(CreatedFor(last.detections[i])) = 1
                /\ \A k \in CreatedFor(last.detections[i]) :
                       /\ heap[inventory[k].ref].detection_count = 1
                       /\ heap[inventory[k].ref].status = "present"
                       /\ heap[inventory[k].ref].last_seen = now

(* The detections of the last frame that the matcher pairs with the item:  *)
(* jewelry of the item's class within tolerance of its center              *)
MatchesOf(item) ==
    {j \in DOMAIN last.detections :
        /\ last.detections[j].is_jewelry
        /\ ItemMatchesDetection(item, last.detections[j])}

(* C29: update on match.  An item that was present before a tick and was   *)
(* matched by exactly one detection of the tick is in the inventory        *)
(* afterwards with its id, class and first_seen, with the detection's      *)
(* bbox, center and confidence, last_seen the time of the tick, its        *)
(* detection_count one higher and status present.                          *)
C29_UpdateOnMatch ==
    last.op = "tick"
    => \A i \in DOMAIN last.prev_inventory :
           LET item == last.prev_inventory[i].item
           IN  \A j \in MatchesOf(item) :
                   (/\ item.status = "present"
                    /\ MatchesOf(item) = {j}
                    /\ \A o \in DOMAIN last.prev_inventory :
                           j \in MatchesOf(last.prev_inventory[o].item)
                           /\ last.prev_inventory[o].item.status = "present" => o = i)
                   => \E k \in DOMAIN inventory :
                          LET after == heap[inventory[k].ref]
                          IN  /\ after.id = item.id
                              /\ after.class = item.class
                              /\ after.first_seen = item.first_seen
                              /\ after.bbox = last.detections[j].bbox
                              /\ after.center = last.detections[j].center
                              /\ after.confidence = last.detections[j].confidence
                              /\ after.last_seen = now
                              /\ after.detection_count = item.detection_count + 1
                              /\ after.status = "present"

(* C30: missing_since is set only on the transition from present to        *)
(* missing.  An item that was missing before a tick and is still in the    *)
(* inventory, missing, after it has the missing_since it had before.       *)
C30_MissingSinceKept ==
    last.op = "tick"
    => \A i \in DOMAIN last.prev_inventory :
           LET e == last.prev_inventory[i]
           IN  (/\ e.item.status = "missing"
                /\ HasKey(inventory, e.key)
                /\ heap[DictGet(inventory, e.key)].status = "missing"
                /\ heap[DictGet(inventory, e.key)].first_seen = e.item.first_seen)
               => heap[DictGet(inventory, e.key)].missing_since = e.item.missing_since

-----------------------------------------------------------------------------
(* Properties of the inventory over a session *)

(* C31: items are never deleted within a session.  Every key that was in   *)
(* the inventory before a tick is in the inventory after it and denotes    *)
(* the same tracked item: same class, same first_seen.                     *)
C31_ItemsNeverDeleted ==
    last.op = "tick"
    => \A i \in DOMAIN last.prev_inventory :
           LET e == last.prev_inventory[i]
           IN  /\ HasKey(inventory, e.key)
               /\ heap[DictGet(inventory, e.key)].class = e.item.class
               /\ heap[DictGet(inventory, e.key)].first_seen = e.item.first_seen

(* C32: meaning of the stability counter.  In a session in which every    *)
(* step of the clock is an update tick, a present item was created or      *)
(* matched in the latest tick, and its detection_count is the number of    *)
(* ticks from the one that created it to the latest: one per tick, however *)
(* many detections of a tick matched it.                                   *)
C32_StabilityCounter ==
    \A k \in DOMAIN inventory :
        heap[inventory[k].ref].status = "present"
        => /\ heap[inventory[k].ref].last_seen = now
           /\ heap[inventory[k].ref].detection_count
                  = now - heap[inventory[k].ref].first_seen + 1

(* An item in its third tick that two detections of the last frame matched *)
C32_Witness ==
    /\ last.op = "tick"
    /\ \E i \in DOMAIN last.prev_inventory :
           /\ last.prev_inventory[i].item.status = "present"
           /\ Cardinality(MatchesOf(last.prev_inventory[i].item)) = 2
           /\ \E k \in DOMAIN inventory :
                  /\ heap[inventory[k].ref].id = last.prev_inventory[i].item.id
                  /\ heap[inventory[k].ref].first_seen
                         = last.prev_inventory[i].item.first_seen
                  /\ heap[inventory[k].ref].status = "present"
                  /\ heap[inventory[k].ref].detection_count = 3

-----------------------------------------------------------------------------
(* The status report on inventories whose evaluation raises alerts of      *)
(* severity MEDIUM                                                         *)

NextReport ==
    \/ Evaluate
    \/ get_jewelry_status

SpecReport == InitLow /\ [][NextReport]_vars

(* The count the report gives for a severity, 0 when it gives none *)
SeverityCount(report, field) == IF field \in DOMAIN report THEN report[field] ELSE 0

-----------------------------------------------------------------------------
(* Properties of what a tick keeps *)

(* C34: every detection is represented.  After a tick, for each jewelry    *)
(* detection of the frame the inventory holds a present item of the        *)
(* detection's class at the detection's center.                            *)
C34_EveryDetectionRepresented ==
    last.op = "tick"
    => \A i \in DOMAIN last.detections :
           last.detections[i].is_jewelry
           => \E k \in DOMAIN inventory :
                  /\ heap[inventory[k].ref].status = "present"
                  /\ heap[inventory[k].ref].class = last.detections[i].class
                  /\ heap[inventory[k].ref].center = last.detections[i].center

-----------------------------------------------------------------------------
(* The alert evaluation against a large baseline: a shop whose baseline    *)
(* holds up to 51 rings, of which at most 2 are in view                    *)

MaxCrowdBaseline == 51

MaxCrowdPresent == 2

InitCrowd ==
    \E j \in 0..MaxCrowdPresent, n \in 0..MaxCrowdBaseline :
        /\ heap = [k \in 1..(j + n) |-> EvalItem(k, 0, j, 0)]
        /\ inventory = [k \in 1..j |-> EntryOf(heap, k)]
        /\ baseline_inventory = [k \in 1..n |-> EntryOf(heap, j + k)]
        /\ alerts = <<>>
        /\ tracking_active = TRUE
        /\ baseline_file = [state |-> "absent", doc |-> <<>>]
        /\ now = 0
        /\ last = Last("init", <<>>, <<>>, <<>>, <<>>, [status |-> "none"])
        /\ run = [detections |-> <<>>, length |-> 0]
        /\ appended = <<>>
        /\ call = NoCall

NextCrowd == Evaluate

SpecCrowd == InitCrowd /\ [][NextCrowd]_vars

(* C35: every alert of a tick is retained at the end of the tick.  When an *)
(* evaluation has completed, each alert its four checks produced is in    *)
(* the alert list.                                                         *)
C35_TickAlertsRetained ==
    last.op = "evaluate"
    => \A j \in DOMAIN last.new_alerts :
           \E k \in DOMAIN alerts : alerts[k] = last.new_alerts[j]

(* C36: appended alerts are immutable.  An alert that is in the alert list *)
(* before and after a step has the same fields, and the item it refers to  *)
(* has the same field values, after the step as before.                    *)
C36_AlertsImmutable ==
    [][\A i \in DOMAIN alerts :
           (/\ alerts[i].item # NoRef
            /\ \E k \in DOMAIN alerts' : alerts'[k] = alerts[i])
           => heap'[alerts[i].item] = heap[alerts[i].item]]_vars

-----------------------------------------------------------------------------
(* A session whose detector reports rings at the admission threshold and   *)
(* just below it, with the whole API in use                                *)

MaxFaintTicks == 4

EdgeRing == Box(80, JewelryConfidence, 100, 100, 10)

BelowRing == Box(80, JewelryConfidence - 1, 160, 180, 10)

FaintFrames == {<<>>, <<EdgeRing>>, <<BelowRing>>, <<BelowRing, EdgeRing>>}

FaintTick == TickOn(FaintFrames, MaxFaintTicks)

NextFaint ==
    \/ FaintTick
    \/ IdleFrame
    \/ start_jewelry_tracking
    \/ stop_jewelry_tracking
    \/ save_jewelry_baseline
    \/ load_jewelry_baseline
    \/ clear_jewelry_alerts

SpecFaint == Init /\ [][NextFaint]_vars

(* C37: low-confidence alerts are unreachable through the frame pipeline.  *)
(* Every item of the inventory has a confidence of at least 0.3, and no    *)
(* LOW_CONFIDENCE_JEWELRY alert is in the alert list or was ever appended  *)
(* to it.                                                                  *)
C37_LowConfidenceUnreachable ==
    /\ \A k \in DOMAIN inventory : heap[inventory[k].ref].confidence >= 30
    /\ \A i \in DOMAIN alerts : alerts[i].type # "LOW_CONFIDENCE_JEWELRY"
    /\ \A i \in DOMAIN appended : appended[i].type # "LOW_CONFIDENCE_JEWELRY"
    /\ \A i \in DOMAIN last.new_alerts :
           last.new_alerts[i].type # "LOW_CONFIDENCE_JEWELRY"

(* A tick has evaluated an inventory that holds a present ring at exactly  *)
(* 0.3, saved to the baseline before                                       *)
C37_Witness ==
    /\ last.op = "tick"
    /\ tracking_active
    /\ baseline_inventory # <<>>
    /\ \E k \in DOMAIN inventory :
           /\ heap[inventory[k].ref].status = "present"
           /\ heap[inventory[k].ref].is_jewelry
           /\ heap[inventory[k].ref].confidence = 30

-----------------------------------------------------------------------------
(* A session in which writing the baseline document can fail: os.makedirs, *)
(* open or json.dump raises (no permission, disk full)                     *)

(* Mutant: the baseline in memory is replaced before the document is written *)
save_jewelry_baseline_failed_late ==
    LET stable_jewelry == StableJewelry(heap, inventory)
    IN  /\ \E state \in {baseline_file.state, "corrupt"} :
               baseline_file' = IF state = baseline_file.state THEN baseline_file
                                ELSE [state |-> "corrupt", doc |-> <<>>]
        /\ baseline_inventory' = stable_jewelry
        /\ heap' = Collect(heap, inventory, stable_jewelry, alerts)
        /\ last' = Last("save", <<>>, ValueOf(heap, inventory),
                        ValueOf(heap, baseline_inventory), <<>>, [status |-> "error"])
        /\ UNCHANGED <<inventory, alerts, tracking_active, now, run, appended, call>>

(* The exception leaves the try block before line 514: the file is as it   *)
(* was (makedirs or open failed) or was truncated by open(.., 'w') and is  *)
(* no longer a JSON document; the except clause returns an error           *)
save_jewelry_baseline_failed ==
    /\ \E state \in {baseline_file.state, "corrupt"} :
           baseline_file' = IF state = baseline_file.state THEN baseline_file
                            ELSE [state |-> "corrupt", doc |-> <<>>]
    /\ last' = Last("save", <<>>, ValueOf(heap, inventory),
                    ValueOf(heap, baseline_inventory), <<>>, [status |-> "error"])
    /\ UNCHANGED <<heap, inventory, baseline_inventory, alerts, tracking_active, now, run,
                   appended, call>>

NextDisk ==
    \/ FileTick
    \/ start_jewelry_tracking
    \/ save_jewelry_baseline
    \/ save_jewelry_baseline_failed
    \/ load_jewelry_baseline

SpecDisk == Init /\ [][NextDisk]_vars

(* C38: a failed save leaves the baseline untouched.  A call of            *)
(* save_jewelry_baseline that fails while persisting returns an error      *)
(* result, without a count, and the baseline in memory, the inventory, the *)
(* alert list and the tracking flag are exactly as before the call.        *)
C38_FailedSaveKeepsBaseline ==
    [][(last'.op = "save" /\ last'.result.status # "success")
       => /\ last'.result.status = "error"
          /\ "baseline_count" \notin DOMAIN last'.result
          /\ baseline_inventory' = baseline_inventory
          /\ inventory' = inventory
          /\ ValueOf(heap', baseline_inventory') = ValueOf(heap, baseline_inventory)
          /\ ValueOf(heap', inventory') = ValueOf(heap, inventory)
          /\ alerts' = alerts
          /\ tracking_active' = tracking_active]_vars

(* A failed save of an inventory whose stable jewelry is not the baseline:  *)
(* the baseline is still empty                                             *)
C38_Witness ==
    /\ last.op = "save"
    /\ last.result.status = "error"
    /\ tracking_active
    /\ StableJewelry(heap, inventory) # <<>>
    /\ baseline_inventory = <<>>
    /\ last.prev_baseline = <<>>


====
